---- MODULE Spec2Model ----
(***************************************************************************)
(* The relay server of the two-party chat: the identity registry, the busy *)
(* index, the room table and the socket.io room scopes, with one action    *)
(* per socket event handler of the server (src/unnamed/part_002).          *)
(***************************************************************************)
EXTENDS Integers, Sequences, FiniteSets, TLC

\* ------------------------------------------------------------------ bounds
MaxConns == 3   \* transport connections ever opened
MaxRooms == 2   \* ids makeId() hands out for rooms

\* ------------------------------------------------------------- value sets
UserIds   == {"alice", "bob", "carol"}
NoUser    == ""                      \* a missing / empty (falsy) identity
UserArgs  == UserIds \cup {NoUser}
SocketIds == 1 .. MaxConns           \* socket.id of the n-th connection
NoSocket  == 0                       \* Map.get(...) === undefined
RoomIds   == {0 - k : k \in 1 .. MaxRooms}   \* values of makeId()
NoRoom    == 0
Texts     == {"hi", " ", ""}         \* a text, a blank text, an empty text
NotAString == "<not a string>"       \* a truthy value whose typeof is not 'string'
RegisterArgs == UserArgs \cup {NotAString}   \* what a client may send as userId
TextArgs  == Texts \cup {NotAString}          \* what a client may send as text
ClientTs  == {5}                    \* payload.ts: a client's own stamp (0: none)
Times     == {1000}                  \* values of Date.now()

VARIABLES
    UserIdToSocket,  \* Map<userId, socket.id>
    SocketToUserId,  \* Map<socket.id, userId>
    UserToRoom,      \* Map<userId, roomId>   (the busy index)
    Rooms,           \* Map<roomId, {a, b}>
    sockets,         \* io.sockets.sockets: the connected sockets
    opened,          \* number of connections accepted so far
    scope,           \* socket.io adapter: roomId -> sockets joined to it
    made,            \* number of ids makeId() has produced
    running,         \* the server process is up (no handler has thrown)
    endedSent,       \* roomId -> number of 'ended' broadcasts emitted for it
    inviteSeen,      \* history: "yes" once an incoming-invite was emitted, "no"
                     \* before; "untracked" where no history is kept
    \* one browser tab of the client (pages/index.tsx, Home, Chat)
    selfId,            \* localStorage 'selfId'
    route,             \* the page shown: "home" ('/') or "chat" ('/chat/:userId')
    peerId,            \* the :userId parameter of the chat route
    chatRoomId,        \* Chat's roomId state (NoRoom for null)
    sessionRoomId,     \* sessionStorage 'roomId' (NoRoom for none)
    input,             \* Chat's input state
    pendingInviteFrom  \* Home's pendingInviteFrom state (NoUser for null)

server == <<UserIdToSocket, SocketToUserId, UserToRoom, Rooms, sockets, opened,
            scope, made, running, endedSent, inviteSeen>>

page == <<selfId, route, peerId, chatRoomId, sessionRoomId, input, pendingInviteFrom>>

vars == <<server, page>>

\* ---------------------------------------------------------- Map helpers
Has(m, k)      == k \in DOMAIN m
Get(m, k, und) == IF k \in DOMAIN m THEN m[k] ELSE und
Put(m, k, v)   == [x \in (DOMAIN m) \cup {k} |-> IF x = k THEN v ELSE m[x]]
Del(m, k)      == [x \in (DOMAIN m) \ {k} |-> m[x]]
EmptyMap       == [x \in {} |-> 0]

\* The server state a handler reads and writes, with the effects it logs.
Cur ==
    [u2s |-> UserIdToSocket, s2u |-> SocketToUserId, u2r |-> UserToRoom,
     rooms |-> Rooms, sockets |-> sockets, scope |-> scope, made |-> made,
     log |-> <<>>, thrown |-> FALSE]

\* JavaScript's typeof v === 'string'.
isString(v) == v # NotAString

\* A TypeError leaves the handler: nothing after it runs.
Throw(st) == [st EXCEPT !.thrown = TRUE]

\* The three tables as they are at one point of a handler's run.
Tables(st) == [u2s |-> st.u2s, s2u |-> st.s2u, u2r |-> st.u2r, rooms |-> st.rooms]

\* ------------------------------------------------------ socket.io effects
\* io.to(x): the sockets of the adapter room x. Every connected socket is
\* alone in the room named by its own id; the other rooms are the joined ones.
To(st, x) ==
    IF x \in SocketIds THEN {x} \cap st.sockets
    ELSE IF x \in RoomIds THEN st.scope[x]
    ELSE {}

Emit(st, ev, target, payload) ==
    [st EXCEPT !.log = Append(@, [k |-> "emit", ev |-> ev, to |-> To(st, target),
                                   p |-> payload, at |-> Tables(st)])]

SocketEmit(st, sid, ev, payload) ==
    [st EXCEPT !.log = Append(@, [k |-> "emit", ev |-> ev, to |-> {sid} \cap st.sockets,
                                   p |-> payload, at |-> Tables(st)])]

Ack(st, sid, ok, err) ==
    [st EXCEPT !.log = Append(@, [k |-> "ack", ev |-> "ack", to |-> {sid},
                                   p |-> [ok |-> ok, err |-> err], at |-> Tables(st)])]

Join(st, sid, roomId) ==
    IF sid \in st.sockets
    THEN [st EXCEPT !.scope[roomId] = @ \cup {sid}]
    ELSE st

\* ------------------------------------------------------------- utilities
isBusy(st, userId) == Has(st.u2r, userId)

makeId(st) == 0 - (st.made + 1)

\* ------------------------------------------------------------- endRoom
\* endRoom freeing only the first member.
endRoom_freeOne(st, roomId, reason) ==
    IF ~Has(st.rooms, roomId) THEN st
    ELSE LET meta == st.rooms[roomId]
             s1 == Emit(st, "ended", roomId, [roomId |-> roomId, reason |-> reason])
             s2 == [s1 EXCEPT !.u2r = Del(@, meta.a)]
         IN [s2 EXCEPT !.rooms = Del(@, roomId)]

\* endRoom leaving the room in the room table.
endRoom_keepRoom(st, roomId, reason) ==
    IF ~Has(st.rooms, roomId) THEN st
    ELSE LET meta == st.rooms[roomId]
             s1 == Emit(st, "ended", roomId, [roomId |-> roomId, reason |-> reason])
         IN [s1 EXCEPT !.u2r = Del(Del(@, meta.a), meta.b)]

\* endRoom broadcasting ended after it has cleaned the tables.
endRoom_emitLast(st, roomId, reason) ==
    IF ~Has(st.rooms, roomId) THEN st
    ELSE LET meta == st.rooms[roomId]
             s1 == [st EXCEPT !.u2r = Del(Del(@, meta.a), meta.b)]
             s2 == [s1 EXCEPT !.rooms = Del(@, roomId)]
         IN Emit(s2, "ended", roomId, [roomId |-> roomId, reason |-> reason])

endRoom(st, roomId, reason) ==
    IF ~Has(st.rooms, roomId) THEN st
    ELSE LET meta == st.rooms[roomId]
             s1 == Emit(st, "ended", roomId, [roomId |-> roomId, reason |-> reason])
             s2 == [s1 EXCEPT !.u2r = Del(Del(@, meta.a), meta.b)]
         IN [s2 EXCEPT !.rooms = Del(@, roomId)]

\* ---------------------------------------------------- socket.on('disconnect')
\* disconnect tearing the room down before it unregisters.
onDisconnect_teardownFirst(st, sid) ==
    LET userId == Get(st.s2u, sid, NoUser) IN
    IF userId = NoUser THEN st
    ELSE LET roomId == Get(st.u2r, userId, NoRoom)
             s1 == IF roomId # NoRoom THEN endRoom(st, roomId, "disconnect") ELSE st
         IN [s1 EXCEPT !.s2u = Del(@, sid), !.u2s = Del(@, userId)]

onDisconnect(st, sid) ==
    LET userId == Get(st.s2u, sid, NoUser) IN
    IF userId = NoUser THEN st
    ELSE LET s1 == [st EXCEPT !.s2u = Del(@, sid), !.u2s = Del(@, userId)]
             roomId == Get(s1.u2r, userId, NoRoom)
         IN IF roomId # NoRoom THEN endRoom(s1, roomId, "disconnect") ELSE s1

\* The socket closes (by the client, or by disconnect(true) on the server): it
\* leaves every adapter room and the socket table, then its 'disconnect'
\* handler runs, all in the same turn.
closeSocket(st, sid) ==
    IF sid \notin st.sockets THEN st
    ELSE LET s1 == [st EXCEPT !.sockets = @ \ {sid},
                              !.scope = [r \in DOMAIN @ |-> @[r] \ {sid}]]
             s2 == onDisconnect(s1, sid)
         IN [s2 EXCEPT !.log = Append(@, [k |-> "close", ev |-> "disconnect",
                                           to |-> {sid}, p |-> <<>>,
                                           at |-> Tables(s2)])]

\* ------------------------------------------------------ socket.on('register')
\* register overwriting the mapping before it kicks the old socket.
onRegister_setThenKick(st, sid, userId) ==
    IF userId = NoUser \/ ~isString(userId) THEN Ack(st, sid, FALSE, "Invalid userId")
    ELSE LET existingSocketId == Get(st.u2s, userId, NoSocket)
             s1 == [st EXCEPT !.u2s = Put(@, userId, sid), !.s2u = Put(@, sid, userId)]
             s2 == IF existingSocketId # NoSocket /\ existingSocketId # sid
                   THEN closeSocket(s1, existingSocketId)
                   ELSE s1
             s3 == SocketEmit(s2, sid, "registered", [userId |-> userId])
         IN Ack(s3, sid, TRUE, "")

\* register that never kicks the old socket.
onRegister_noKick(st, sid, userId) ==
    IF userId = NoUser \/ ~isString(userId) THEN Ack(st, sid, FALSE, "Invalid userId")
    ELSE LET s2 == [st EXCEPT !.u2s = Put(@, userId, sid), !.s2u = Put(@, sid, userId)]
             s3 == SocketEmit(s2, sid, "registered", [userId |-> userId])
         IN Ack(s3, sid, TRUE, "")

\* register checking only that userId is truthy, not that it is a string.
onRegister_noTypeCheck(st, sid, userId) ==
    IF userId = NoUser THEN Ack(st, sid, FALSE, "Invalid userId")
    ELSE LET existingSocketId == Get(st.u2s, userId, NoSocket)
             s1 == IF existingSocketId # NoSocket /\ existingSocketId # sid
                   THEN closeSocket(st, existingSocketId)
                   ELSE st
             s2 == [s1 EXCEPT !.u2s = Put(@, userId, sid), !.s2u = Put(@, sid, userId)]
             s3 == SocketEmit(s2, sid, "registered", [userId |-> userId])
         IN Ack(s3, sid, TRUE, "")

\* register kicking the registered socket even when it is the caller's own.
onRegister_kickSelf(st, sid, userId) ==
    IF userId = NoUser \/ ~isString(userId) THEN Ack(st, sid, FALSE, "Invalid userId")
    ELSE LET existingSocketId == Get(st.u2s, userId, NoSocket)
             s1 == IF existingSocketId # NoSocket
                   THEN closeSocket(st, existingSocketId)
                   ELSE st
             s2 == [s1 EXCEPT !.u2s = Put(@, userId, sid), !.s2u = Put(@, sid, userId)]
             s3 == SocketEmit(s2, sid, "registered", [userId |-> userId])
         IN Ack(s3, sid, TRUE, "")

onRegister(st, sid, userId) ==
    IF userId = NoUser \/ ~isString(userId) THEN Ack(st, sid, FALSE, "Invalid userId")
    ELSE LET existingSocketId == Get(st.u2s, userId, NoSocket)
             s1 == IF existingSocketId # NoSocket /\ existingSocketId # sid
                   THEN closeSocket(st, existingSocketId)
                   ELSE st
             s2 == [s1 EXCEPT !.u2s = Put(@, userId, sid), !.s2u = Put(@, sid, userId)]
             s3 == SocketEmit(s2, sid, "registered", [userId |-> userId])
         IN Ack(s3, sid, TRUE, "")

\* ----------------------------------------------- socket.on('connect-request')
\* The inviteId of an invite: a token of makeId() the server never reads back.
inviteId == "invite"

\* connect-request sending the invite back to the calling socket.
onConnectRequest_inviteToCaller(st, sid, fromId, toId) ==
    IF fromId = NoUser \/ toId = NoUser \/ fromId = toId
    THEN Ack(st, sid, FALSE, "Invalid connect payload")
    ELSE IF isBusy(st, fromId)
    THEN Ack(SocketEmit(st, sid, "connect-error", [code |-> "BUSY", toId |-> NoUser]),
             sid, FALSE, "You are busy")
    ELSE LET toSocketId == Get(st.u2s, toId, NoSocket) IN
    IF toSocketId = NoSocket
    THEN Ack(SocketEmit(st, sid, "connect-error", [code |-> "OFFLINE", toId |-> toId]),
             sid, FALSE, "Target offline")
    ELSE LET s1 == IF isBusy(st, toId)
                   THEN Ack(SocketEmit(st, sid, "connect-error",
                                       [code |-> "BUSY", toId |-> toId]),
                            sid, FALSE, "Target busy")
                   ELSE st
             s2 == Emit(s1, "incoming-invite", sid,
                        [fromId |-> fromId, toId |-> toId, inviteId |-> inviteId])
         IN Ack(s2, sid, TRUE, "")

\* connect-request with no return after the target-offline error.
onConnectRequest_offlineFallthrough(st, sid, fromId, toId) ==
    IF fromId = NoUser \/ toId = NoUser \/ fromId = toId
    THEN Ack(st, sid, FALSE, "Invalid connect payload")
    ELSE IF isBusy(st, fromId)
    THEN Ack(SocketEmit(st, sid, "connect-error", [code |-> "BUSY", toId |-> NoUser]),
             sid, FALSE, "You are busy")
    ELSE LET toSocketId == Get(st.u2s, toId, NoSocket)
             s0 == IF toSocketId = NoSocket
                   THEN Ack(SocketEmit(st, sid, "connect-error",
                                       [code |-> "OFFLINE", toId |-> toId]),
                            sid, FALSE, "Target offline")
                   ELSE st
             s1 == IF isBusy(st, toId)
                   THEN Ack(SocketEmit(s0, sid, "connect-error",
                                       [code |-> "BUSY", toId |-> toId]),
                            sid, FALSE, "Target busy")
                   ELSE s0
             s2 == Emit(s1, "incoming-invite", toSocketId,
                        [fromId |-> fromId, toId |-> toId, inviteId |-> inviteId])
         IN Ack(s2, sid, TRUE, "")

\* connect-request broadcasting the invite to every connected socket.
onConnectRequest_inviteToAll(st, sid, fromId, toId) ==
    IF fromId = NoUser \/ toId = NoUser \/ fromId = toId
    THEN Ack(st, sid, FALSE, "Invalid connect payload")
    ELSE IF isBusy(st, fromId)
    THEN Ack(SocketEmit(st, sid, "connect-error", [code |-> "BUSY", toId |-> NoUser]),
             sid, FALSE, "You are busy")
    ELSE LET toSocketId == Get(st.u2s, toId, NoSocket) IN
    IF toSocketId = NoSocket
    THEN Ack(SocketEmit(st, sid, "connect-error", [code |-> "OFFLINE", toId |-> toId]),
             sid, FALSE, "Target offline")
    ELSE LET s1 == IF isBusy(st, toId)
                   THEN Ack(SocketEmit(st, sid, "connect-error",
                                       [code |-> "BUSY", toId |-> toId]),
                            sid, FALSE, "Target busy")
                   ELSE st
             s2 == [s1 EXCEPT !.log = Append(@,
                        [k |-> "emit", ev |-> "incoming-invite", to |-> s1.sockets,
                         p |-> [fromId |-> fromId, toId |-> toId, inviteId |-> inviteId],
                         at |-> Tables(s1)])]
         IN Ack(s2, sid, TRUE, "")

onConnectRequest(st, sid, fromId, toId) ==
    IF fromId = NoUser \/ toId = NoUser \/ fromId = toId
    THEN Ack(st, sid, FALSE, "Invalid connect payload")
    ELSE IF isBusy(st, fromId)
    THEN Ack(SocketEmit(st, sid, "connect-error", [code |-> "BUSY", toId |-> NoUser]),
             sid, FALSE, "You are busy")
    ELSE LET toSocketId == Get(st.u2s, toId, NoSocket) IN
    IF toSocketId = NoSocket
    THEN Ack(SocketEmit(st, sid, "connect-error", [code |-> "OFFLINE", toId |-> toId]),
             sid, FALSE, "Target offline")
    ELSE LET s1 == IF isBusy(st, toId)
                   THEN Ack(SocketEmit(st, sid, "connect-error",
                                       [code |-> "BUSY", toId |-> toId]),
                            sid, FALSE, "Target busy")
                   ELSE st
             s2 == Emit(s1, "incoming-invite", toSocketId,
                        [fromId |-> fromId, toId |-> toId, inviteId |-> inviteId])
         IN Ack(s2, sid, TRUE, "")

\* -------------------------------------------------------- socket.on('accept')
\* accept without the busy re-check.
onAccept_noBusyCheck(st, sid, fromId, toId) ==
    IF fromId = NoUser \/ toId = NoUser
    THEN Ack(st, sid, FALSE, "Invalid accept payload")
    ELSE LET aSock == Get(st.u2s, fromId, NoSocket)
             bSock == Get(st.u2s, toId, NoSocket)
         IN
    IF aSock = NoSocket \/ bSock = NoSocket
    THEN Ack(st, sid, FALSE, "One party went offline")
    ELSE LET roomId == makeId(st)
             s1 == [st EXCEPT !.made = @ + 1,
                              !.rooms = Put(@, roomId, [a |-> fromId, b |-> toId])]
             s2 == [s1 EXCEPT !.u2r = Put(Put(@, fromId, roomId), toId, roomId)]
             s3 == Join(Join(s2, aSock, roomId), bSock, roomId)
             s4 == Emit(s3, "connected", roomId,
                        [roomId |-> roomId, a |-> fromId, b |-> toId])
         IN Ack(s4, sid, TRUE, "")

\* accept joining the calling socket to the room as well.
onAccept_joinCaller(st, sid, fromId, toId) ==
    IF fromId = NoUser \/ toId = NoUser
    THEN Ack(st, sid, FALSE, "Invalid accept payload")
    ELSE IF isBusy(st, fromId) \/ isBusy(st, toId)
    THEN Ack(st, sid, FALSE, "One party is busy")
    ELSE LET aSock == Get(st.u2s, fromId, NoSocket)
             bSock == Get(st.u2s, toId, NoSocket)
         IN
    IF aSock = NoSocket \/ bSock = NoSocket
    THEN Ack(st, sid, FALSE, "One party went offline")
    ELSE LET roomId == makeId(st)
             s1 == [st EXCEPT !.made = @ + 1,
                              !.rooms = Put(@, roomId, [a |-> fromId, b |-> toId])]
             s2 == [s1 EXCEPT !.u2r = Put(Put(@, fromId, roomId), toId, roomId)]
             s3 == Join(Join(Join(s2, aSock, roomId), bSock, roomId), sid, roomId)
             s4 == Emit(s3, "connected", roomId,
                        [roomId |-> roomId, a |-> fromId, b |-> toId])
         IN Ack(s4, sid, TRUE, "")

\* accept without the check that both parties are still registered.
onAccept_noOfflineCheck(st, sid, fromId, toId) ==
    IF fromId = NoUser \/ toId = NoUser
    THEN Ack(st, sid, FALSE, "Invalid accept payload")
    ELSE IF isBusy(st, fromId) \/ isBusy(st, toId)
    THEN Ack(st, sid, FALSE, "One party is busy")
    ELSE LET aSock == Get(st.u2s, fromId, NoSocket)
             bSock == Get(st.u2s, toId, NoSocket)
             roomId == makeId(st)
             s1 == [st EXCEPT !.made = @ + 1,
                              !.rooms = Put(@, roomId, [a |-> fromId, b |-> toId])]
             s2 == [s1 EXCEPT !.u2r = Put(Put(@, fromId, roomId), toId, roomId)]
             s3 == Join(Join(s2, aSock, roomId), bSock, roomId)
             s4 == Emit(s3, "connected", roomId,
                        [roomId |-> roomId, a |-> fromId, b |-> toId])
         IN Ack(s4, sid, TRUE, "")

onAccept(st, sid, fromId, toId) ==
    IF fromId = NoUser \/ toId = NoUser
    THEN Ack(st, sid, FALSE, "Invalid accept payload")
    ELSE IF isBusy(st, fromId) \/ isBusy(st, toId)
    THEN Ack(st, sid, FALSE, "One party is busy")
    ELSE LET aSock == Get(st.u2s, fromId, NoSocket)
             bSock == Get(st.u2s, toId, NoSocket)
         IN
    IF aSock = NoSocket \/ bSock = NoSocket
    THEN Ack(st, sid, FALSE, "One party went offline")
    ELSE LET roomId == makeId(st)
             s1 == [st EXCEPT !.made = @ + 1,
                              !.rooms = Put(@, roomId, [a |-> fromId, b |-> toId])]
             s2 == [s1 EXCEPT !.u2r = Put(Put(@, fromId, roomId), toId, roomId)]
             s3 == Join(Join(s2, aSock, roomId), bSock, roomId)
             s4 == Emit(s3, "connected", roomId,
                        [roomId |-> roomId, a |-> fromId, b |-> toId])
         IN Ack(s4, sid, TRUE, "")

\* -------------------------------------------------------- socket.on('reject')
\* reject tearing down the room of toId, as endRoom's "reject" reason suggests.
onReject_endsRoom(st, sid, toId) ==
    LET toSock == IF toId # NoUser THEN Get(st.u2s, toId, NoSocket) ELSE NoSocket
        s1 == IF toSock # NoSocket
              THEN Emit(st, "connect-error", toSock, [code |-> "INVALID", toId |-> NoUser])
              ELSE st
        s2 == IF isBusy(s1, toId) THEN endRoom(s1, s1.u2r[toId], "reject") ELSE s1
    IN Ack(s2, sid, TRUE, "")

onReject(st, sid, toId) ==
    LET toSock == IF toId # NoUser THEN Get(st.u2s, toId, NoSocket) ELSE NoSocket
        s1 == IF toSock # NoSocket
              THEN Emit(st, "connect-error", toSock, [code |-> "INVALID", toId |-> NoUser])
              ELSE st
    IN Ack(s1, sid, TRUE, "")

\* ------------------------------------------------------- socket.on('message')
trim(text) == IF text = " " THEN "" ELSE IF text = " hi " THEN "hi" ELSE text

\* message relaying the client's own ts when the payload has one.
onMessage_clientTs(st, roomId, senderId, text, ts, now) ==
    IF roomId = NoRoom \/ senderId = NoUser THEN st
    ELSE IF ~isString(text) THEN Throw(st)
    ELSE IF trim(text) = "" THEN st
    ELSE Emit(st, "message", roomId,
              [roomId |-> roomId, senderId |-> senderId, text |-> text,
               ts |-> IF ts # 0 THEN ts ELSE now])

\* text?.trim() is a call of undefined when text is a truthy non-string; the
\* payload's ts is never read.
onMessage(st, roomId, senderId, text, ts, now) ==
    IF roomId = NoRoom \/ senderId = NoUser THEN st
    ELSE IF ~isString(text) THEN Throw(st)
    ELSE IF trim(text) = "" THEN st
    ELSE Emit(st, "message", roomId,
              [roomId |-> roomId, senderId |-> senderId, text |-> text, ts |-> now])

\* -------------------------------------------------------- socket.on('typing')
onTyping(st, roomId, userId, isTyping) ==
    IF roomId = NoRoom \/ userId = NoUser THEN st
    ELSE Emit(st, "typing", roomId,
              [roomId |-> roomId, userId |-> userId, isTyping |-> isTyping])

\* --------------------------------------------------------- socket.on('leave')
\* leave also unregistering the caller.
onLeave_unregister(st, sid, roomId) ==
    LET s1 == IF roomId # NoRoom THEN endRoom(st, roomId, "left") ELSE st
        userId == Get(s1.s2u, sid, NoUser)
        s2 == IF userId # NoUser
              THEN [s1 EXCEPT !.s2u = Del(@, sid), !.u2s = Del(@, userId)]
              ELSE s1
    IN Ack(s2, sid, TRUE, "")

onLeave(st, sid, roomId) ==
    LET s1 == IF roomId # NoRoom THEN endRoom(st, roomId, "left") ELSE st
    IN Ack(s1, sid, TRUE, "")

\* ------------------------------------------------------------- the machine
\* A handler's result becomes the next state. What the handler sent (st.log) goes
\* out on the transport and is not kept by the server.
EndedFor(st, r) ==
    Len(SelectSeq(st.log, LAMBDA e : e.k = "emit" /\ e.ev = "ended" /\ e.p.roomId = r))

InvitesIn(st) ==
    Len(SelectSeq(st.log, LAMBDA e : e.k = "emit" /\ e.ev = "incoming-invite"))

\* An exception no handler catches ends the process: its tables and its
\* sockets are gone.
Crash ==
    /\ running' = FALSE
    /\ UserIdToSocket' = EmptyMap
    /\ SocketToUserId' = EmptyMap
    /\ UserToRoom' = EmptyMap
    /\ Rooms' = EmptyMap
    /\ sockets' = {}
    /\ scope' = [r \in RoomIds |-> {}]
    /\ UNCHANGED <<opened, made, endedSent, inviteSeen>>
    /\ UNCHANGED page

Commit(st) ==
    IF st.thrown THEN Crash
    ELSE /\ UserIdToSocket' = st.u2s
         /\ SocketToUserId' = st.s2u
         /\ UserToRoom' = st.u2r
         /\ Rooms' = st.rooms
         /\ sockets' = st.sockets
         /\ scope' = st.scope
         /\ made' = st.made
         /\ endedSent' = [r \in RoomIds |-> endedSent[r] + EndedFor(st, r)]
         /\ inviteSeen' = IF inviteSeen = "no" /\ InvitesIn(st) > 0
                          THEN "yes" ELSE inviteSeen
         /\ UNCHANGED <<opened, running>>
         /\ UNCHANGED page

\* The server at start.
Listening ==
    /\ UserIdToSocket = EmptyMap
    /\ SocketToUserId = EmptyMap
    /\ UserToRoom = EmptyMap
    /\ Rooms = EmptyMap
    /\ sockets = {}
    /\ opened = 0
    /\ scope = [r \in RoomIds |-> {}]
    /\ made = 0
    /\ running = TRUE
    /\ endedSent = [r \in RoomIds |-> 0]

\* The tab at '/', as user, with empty storage.
HomeOpened(user) ==
    /\ selfId = user
    /\ route = "home"
    /\ peerId = NoUser
    /\ chatRoomId = NoRoom
    /\ sessionRoomId = NoRoom
    /\ input = ""
    /\ pendingInviteFrom = NoUser

Init == Listening /\ HomeOpened("alice") /\ inviteSeen = "untracked"

\* The same start, keeping the history of invites.
TrackedInit == Listening /\ HomeOpened("alice") /\ inviteSeen = "no"

\* io.on('connection'): the transport hands the server a new socket.
Connection ==
    /\ running
    /\ opened < MaxConns
    /\ opened' = opened + 1
    /\ sockets' = sockets \cup {opened + 1}
    /\ UNCHANGED <<UserIdToSocket, SocketToUserId, UserToRoom, Rooms, scope, made,
                   running, endedSent, inviteSeen>>
    /\ UNCHANGED page

Register(sid, userId) ==
    /\ running /\ sid \in sockets
    /\ Commit(onRegister(Cur, sid, userId))

ConnectRequest(sid, fromId, toId) ==
    /\ running /\ sid \in sockets
    /\ Commit(onConnectRequest(Cur, sid, fromId, toId))

Accept(sid, fromId, toId) ==
    /\ running /\ sid \in sockets
    /\ made < MaxRooms      \* makeId() has an id left to hand out
    /\ Commit(onAccept(Cur, sid, fromId, toId))

\* The handler reads toId alone of its payload.
Reject(sid, toId) ==
    /\ running /\ sid \in sockets
    /\ Commit(onReject(Cur, sid, toId))

\* The message and typing handlers never read the socket they arrive on.
Message(roomId, senderId, text, ts, now) ==
    /\ running /\ sockets # {}
    /\ Commit(onMessage(Cur, roomId, senderId, text, ts, now))

Typing(roomId, userId, isTyping) ==
    /\ running /\ sockets # {}
    /\ Commit(onTyping(Cur, roomId, userId, isTyping))

Leave(sid, roomId) ==
    /\ running /\ sid \in sockets
    /\ Commit(onLeave(Cur, sid, roomId))

Disconnect(sid) ==
    /\ running /\ sid \in sockets
    /\ Commit(closeSocket(Cur, sid))

ScopeNames == RoomIds \cup SocketIds \cup {NoRoom}

Next ==
    \/ Connection
    \/ \E sid \in SocketIds, userId \in RegisterArgs : Register(sid, userId)
    \/ \E sid \in SocketIds, fromId \in UserArgs, toId \in UserArgs :
          ConnectRequest(sid, fromId, toId)
    \/ \E sid \in SocketIds, fromId \in UserArgs, toId \in UserArgs :
          Accept(sid, fromId, toId)
    \/ \E sid \in SocketIds, toId \in UserArgs : Reject(sid, toId)
    \/ \E roomId \in ScopeNames, senderId \in UserArgs, text \in TextArgs,
          ts \in ClientTs, now \in Times :
          Message(roomId, senderId, text, ts, now)
    \/ \E roomId \in ScopeNames, userId \in UserArgs, isTyping \in BOOLEAN :
          Typing(roomId, userId, isTyping)
    \/ \E sid \in SocketIds, roomId \in ScopeNames : Leave(sid, roomId)
    \/ \E sid \in SocketIds : Disconnect(sid)

Spec == Init /\ [][Next]_vars

\* The negotiation and the room life cycle alone: the relay handlers (message,
\* typing) emit no invite and write no table.
NegotiationNext ==
    \/ Connection
    \/ \E sid \in SocketIds, userId \in RegisterArgs : Register(sid, userId)
    \/ \E sid \in SocketIds, fromId \in UserArgs, toId \in UserArgs :
          ConnectRequest(sid, fromId, toId)
    \/ \E sid \in SocketIds, fromId \in UserArgs, toId \in UserArgs :
          Accept(sid, fromId, toId)
    \/ \E sid \in SocketIds, toId \in UserArgs : Reject(sid, toId)
    \/ \E sid \in SocketIds, roomId \in ScopeNames : Leave(sid, roomId)
    \/ \E sid \in SocketIds : Disconnect(sid)

TrackedSpec == TrackedInit /\ [][NegotiationNext]_vars

\* ================================================================= the client
\* One browser tab: the Home page at '/', the Chat page at '/chat/:userId'. A
\* client handler is an operator on the tab's state, which returns the new
\* state and `out`, what the handler gave to socket.emit, in order.
Inputs == Texts \cup {" hi "}      \* what the user may have typed

Tab == [selfId |-> selfId, route |-> route, peerId |-> peerId,
        chatRoomId |-> chatRoomId, sessionRoomId |-> sessionRoomId,
        input |-> input, pendingInviteFrom |-> pendingInviteFrom, out |-> <<>>]

\* socket.emit(ev, payload)
ClientEmit(c, ev, payload) == [c EXCEPT !.out = Append(@, [ev |-> ev, p |-> payload])]

\* Chat's sendTyping
sendTyping(c, isTyping) ==
    IF c.chatRoomId = NoRoom THEN c
    ELSE ClientEmit(c, "typing", [roomId |-> c.chatRoomId, userId |-> c.selfId,
                                  isTyping |-> isTyping])

\* Home is rendered: fresh state, and it registers on the connected socket.
mountHome(c) ==
    ClientEmit([c EXCEPT !.route = "home", !.peerId = NoUser,
                         !.pendingInviteFrom = NoUser],
               "register", c.selfId)

\* Chat is rendered for a peer: roomId starts from sessionStorage, and it
\* registers.
mountChat(c, other) ==
    ClientEmit([c EXCEPT !.route = "chat", !.peerId = other,
                         !.chatRoomId = c.sessionRoomId, !.input = ""],
               "register", c.selfId)

\* Chat goes away: the cleanup of the roomId effect stops the typing signal.
unmountChat(c) ==
    LET c1 == IF c.chatRoomId # NoRoom
              THEN ClientEmit(c, "typing", [roomId |-> c.chatRoomId,
                                            userId |-> c.selfId, isTyping |-> FALSE])
              ELSE c
    IN [c1 EXCEPT !.chatRoomId = NoRoom, !.input = ""]

\* ----------------------------------------------------------------- Home
onInvite(c, fromId) == [c EXCEPT !.pendingInviteFrom = fromId]

Home_onConnected(c, r, a, b) ==
    LET other == IF a = c.selfId THEN b ELSE a
        c1 == [c EXCEPT !.sessionRoomId = r, !.pendingInviteFrom = NoUser]
    IN mountChat(c1, other)

Home_onEnded(c) == [c EXCEPT !.pendingInviteFrom = NoUser]

acceptInvite(c) ==
    IF c.pendingInviteFrom = NoUser THEN c
    ELSE ClientEmit(c, "accept", [fromId |-> c.selfId, toId |-> c.pendingInviteFrom,
                                  inviteId |-> "x"])

\* Reject leaving the invite pending.
rejectInvite_keepPending(c) ==
    IF c.pendingInviteFrom = NoUser THEN c
    ELSE ClientEmit(c, "reject", [fromId |-> c.selfId, toId |-> c.pendingInviteFrom,
                                  inviteId |-> "x"])

rejectInvite(c) ==
    IF c.pendingInviteFrom = NoUser THEN c
    ELSE LET c1 == ClientEmit(c, "reject", [fromId |-> c.selfId,
                                            toId |-> c.pendingInviteFrom,
                                            inviteId |-> "x"])
         IN [c1 EXCEPT !.pendingInviteFrom = NoUser]

\* ----------------------------------------------------------------- Chat
\* connected always taking a as the peer.
Chat_onConnected_peerIsA(c, r, a, b) ==
    LET other == a
        c1 == IF other # c.peerId THEN [c EXCEPT !.peerId = other] ELSE c
        c2 == IF c1.chatRoomId # NoRoom /\ c1.chatRoomId # r
              THEN ClientEmit(c1, "typing", [roomId |-> c1.chatRoomId,
                                             userId |-> c1.selfId, isTyping |-> FALSE])
              ELSE c1
    IN [c2 EXCEPT !.chatRoomId = r, !.sessionRoomId = r]

\* navigate('/chat/other', replace) keeps the page and its state; a changed
\* roomId runs the cleanup of the roomId effect for the old one.
Chat_onConnected(c, r, a, b) ==
    LET other == IF a = c.selfId THEN b ELSE a
        c1 == IF other # c.peerId THEN [c EXCEPT !.peerId = other] ELSE c
        c2 == IF c1.chatRoomId # NoRoom /\ c1.chatRoomId # r
              THEN ClientEmit(c1, "typing", [roomId |-> c1.chatRoomId,
                                             userId |-> c1.selfId, isTyping |-> FALSE])
              ELSE c1
    IN [c2 EXCEPT !.chatRoomId = r, !.sessionRoomId = r]

\* ended leaving the stored room id in place.
Chat_onEnded_keepStored(c) == mountHome(unmountChat(c))

Chat_onEnded(c) ==
    LET c1 == [c EXCEPT !.sessionRoomId = NoRoom]
    IN mountHome(unmountChat(c1))

\* send without trimming the input.
send_untrimmed(c) ==
    LET text == c.input IN
    IF c.chatRoomId = NoRoom \/ text = "" THEN c
    ELSE LET c1 == ClientEmit(c, "message", [roomId |-> c.chatRoomId,
                                             senderId |-> c.selfId, text |-> text])
             c2 == [c1 EXCEPT !.input = ""]
         IN sendTyping(c2, FALSE)

send(c) ==
    LET text == trim(c.input) IN
    IF c.chatRoomId = NoRoom \/ text = "" THEN c
    ELSE LET c1 == ClientEmit(c, "message", [roomId |-> c.chatRoomId,
                                             senderId |-> c.selfId, text |-> text])
             c2 == [c1 EXCEPT !.input = ""]
         IN sendTyping(c2, FALSE)

onInputChange(c, v) == sendTyping([c EXCEPT !.input = v], TRUE)

leave(c) ==
    IF c.chatRoomId = NoRoom THEN mountHome(unmountChat(c))
    ELSE LET c1 == ClientEmit(c, "leave", [roomId |-> c.chatRoomId, userId |-> c.selfId])
             c2 == [c1 EXCEPT !.sessionRoomId = NoRoom]
         IN mountHome(unmountChat(c2))

\* ------------------------------------------------------------ the tab's steps
Render(c) ==
    /\ selfId' = c.selfId
    /\ route' = c.route
    /\ peerId' = c.peerId
    /\ chatRoomId' = c.chatRoomId
    /\ sessionRoomId' = c.sessionRoomId
    /\ input' = c.input
    /\ pendingInviteFrom' = c.pendingInviteFrom
    /\ UNCHANGED server

\* The user loads '/chat/other' in the tab.
OpenChat(other) ==
    /\ Render(mountChat([Tab EXCEPT !.pendingInviteFrom = NoUser], other))

IncomingInvite(fromId) ==
    /\ route = "home"
    /\ Render(onInvite(Tab, fromId))

Connected(r, a, b) ==
    /\ Render(IF route = "home" THEN Home_onConnected(Tab, r, a, b)
              ELSE Chat_onConnected(Tab, r, a, b))

Ended ==
    /\ Render(IF route = "home" THEN Home_onEnded(Tab) ELSE Chat_onEnded(Tab))

PressAccept ==
    /\ route = "home"
    /\ Render(acceptInvite(Tab))

PressReject ==
    /\ route = "home"
    /\ Render(rejectInvite(Tab))

TypeInput(v) ==
    /\ route = "chat"
    /\ Render(onInputChange(Tab, v))

PressSend ==
    /\ route = "chat"
    /\ Render(send(Tab))

PressLeave ==
    /\ route = "chat"
    /\ Render(leave(Tab))

\* The Back button: navigate('/') and nothing else.
PressBack ==
    /\ route = "chat"
    /\ Render(mountHome(unmountChat(Tab)))

ClientInit ==
    /\ Listening /\ inviteSeen = "untracked"
    /\ \E user \in UserIds : HomeOpened(user)

ClientNext ==
    \/ \E other \in UserIds : OpenChat(other)
    \/ \E fromId \in UserIds : IncomingInvite(fromId)
    \/ \E r \in RoomIds, a \in UserIds, b \in UserIds : Connected(r, a, b)
    \/ Ended
    \/ PressAccept
    \/ PressReject
    \/ \E v \in Inputs : TypeInput(v)
    \/ PressSend
    \/ PressLeave
    \/ PressBack

ClientSpec == ClientInit /\ [][ClientNext]_vars

\* ================================================================ properties
\* The effects of one handler run, read off its result.
After(st)  == [st EXCEPT !.log = <<>>]       \* the next handler starts a new log
Sent(st, ev) == SelectSeq(st.log, LAMBDA e : e.k = "emit" /\ e.ev = ev)
AcksOf(st) == SelectSeq(st.log, LAMBDA e : e.k = "ack")
AckedOk(st) == \E i \in 1 .. Len(AcksOf(st)) : AcksOf(st)[i].p.ok
Members(r) == {Rooms[r].a, Rooms[r].b}

\* C1: registry symmetry - every identity u that maps to connection c has c
\* mapped back to u, after any sequence of register and disconnect events.
C1_RegistrySymmetry ==
    \A u \in DOMAIN UserIdToSocket :
        Get(SocketToUserId, UserIdToSocket[u], NoUser) = u

TargetBusy(fromId, toId) ==
    /\ fromId # toId
    /\ Has(UserIdToSocket, toId)
    /\ isBusy(Cur, toId)
    /\ ~isBusy(Cur, fromId)

\* C4: busy short-circuit - a connect-request to a busy, online toId does not
\* both emit incoming-invite and acknowledge success to the initiator.
C4_BusyShortCircuit ==
    \A sid \in sockets, fromId \in UserIds, toId \in UserIds :
        TargetBusy(fromId, toId) =>
            LET out == onConnectRequest(Cur, sid, fromId, toId)
            IN ~(Len(Sent(out, "incoming-invite")) > 0 /\ AckedOk(out))

\* C5: a connect-request whose toId is in a room emits no incoming-invite; its
\* only outputs are connect-error BUSY to the initiator and one failed ack.
C5_NoInviteToBusyTarget ==
    \A sid \in sockets, fromId \in UserIds, toId \in UserIds :
        (fromId # toId /\ isBusy(Cur, toId)) =>
            LET out == onConnectRequest(Cur, sid, fromId, toId)
            IN /\ Len(Sent(out, "incoming-invite")) = 0
               /\ Len(out.log) = 2
               /\ out.log[1].k = "emit" /\ out.log[1].ev = "connect-error"
               /\ out.log[1].p.code = "BUSY" /\ out.log[1].to = {sid}
               /\ out.log[2].k = "ack" /\ ~out.log[2].p.ok

\* C6: when u and v are the two members of a room, the disconnect of the
\* connection u is registered on broadcasts exactly one ended{disconnect} for
\* the room, frees both members and deletes the room, and a connect-request
\* from v to an online, free third identity is then acknowledged with success.
C6_DisconnectTeardown ==
    \A r \in DOMAIN Rooms, u \in UserIds, v \in UserIds :
        (Members(r) = {u, v} /\ u # v /\ Get(UserIdToSocket, u, NoSocket) \in sockets) =>
            LET s1 == closeSocket(Cur, UserIdToSocket[u])
                ended == Sent(s1, "ended")
            IN /\ Len(ended) = 1
               /\ ended[1].p = [roomId |-> r, reason |-> "disconnect"]
               /\ ~isBusy(s1, u) /\ ~isBusy(s1, v)
               /\ ~Has(s1.rooms, r)
               /\ \A t \in UserIds \ {u, v}, sid \in s1.sockets :
                      (Has(s1.u2s, t) /\ ~isBusy(s1, t)) =>
                          LET s2 == onConnectRequest(After(s1), sid, v, t)
                          IN Len(AcksOf(s2)) = 1 /\ AckedOk(s2)

\* C7: when c2 registers an identity u bound to another live connection c1, c1
\* is closed and its registry entries are removed before the mapping is
\* overwritten and before c2 is acknowledged; afterwards u maps to c2 and
\* no identity is recorded for c1.
C7_ReRegistrationEviction ==
    \A c2 \in sockets, u \in UserIds :
        LET c1 == Get(UserIdToSocket, u, NoSocket) IN
        (c1 \in sockets /\ c1 # c2) =>
            LET s1 == onRegister(Cur, c2, u)
                n == Len(s1.log)
            IN /\ c1 \notin s1.sockets
               /\ ~Has(s1.s2u, c1)
               /\ Get(s1.u2s, u, NoSocket) = c2
               /\ Get(s1.s2u, c2, NoUser) = u
               /\ \E i \in 1 .. n :
                     /\ s1.log[i].k = "close" /\ s1.log[i].to = {c1}
                     /\ \A j \in 1 .. n :
                           (s1.log[j].k = "ack" \/ s1.log[j].ev = "registered") => i < j
               /\ s1.log[n].k = "ack" /\ s1.log[n].p.ok /\ s1.log[n].to = {c2}

C7_Witness ==
    \E c1 \in sockets, c2 \in sockets, u \in UserIds :
        /\ c1 # c2
        /\ Get(UserIdToSocket, u, NoSocket) = c1
        /\ Get(SocketToUserId, c1, NoUser) = u
        /\ isBusy(Cur, u)
        /\ LET s1 == onRegister(Cur, c2, u)
           IN s1.u2s[u] = c2 /\ c1 \notin s1.sockets /\ Len(Sent(s1, "ended")) = 1

\* C8: no two distinct live connections are bound to the same identity.
C8_OneLiveConnectionPerIdentity ==
    \A c1 \in sockets, c2 \in sockets :
        (c1 # c2 /\ Has(SocketToUserId, c1) /\ Has(SocketToUserId, c2)) =>
            SocketToUserId[c1] # SocketToUserId[c2]

C8_Witness ==
    \E c1 \in sockets, c2 \in sockets, c3 \in SocketIds :
        /\ c1 # c2
        /\ Has(SocketToUserId, c1) /\ Has(SocketToUserId, c2)
        /\ c3 <= opened /\ c3 \notin sockets
        /\ \E u \in UserIds : Get(UserIdToSocket, u, NoSocket) = c1 /\ c3 < c1

\* The start of the end-to-end scenario: two live connections that hold no
\* identity yet, and two free identities nobody has registered.
Fresh(ca, cb, A, B) ==
    /\ ca # cb /\ A # B
    /\ ~Has(SocketToUserId, ca) /\ ~Has(SocketToUserId, cb)
    /\ ~Has(UserIdToSocket, A) /\ ~Has(UserIdToSocket, B)
    /\ ~isBusy(Cur, A) /\ ~isBusy(Cur, B)
    /\ made < MaxRooms

\* A registers on ca, B on cb; A sends connect-request{A, B}; B's connection
\* gets the invite and sends accept{fromId: B, toId: A}; both get connected
\* with the payload `conn`; A sends "hi" to the room and B's connection gets it.
Scenario(ca, cb, A, B, now, conn) ==
    LET s1 == onRegister(Cur, ca, A)
        s2 == onRegister(After(s1), cb, B)
        s3 == onConnectRequest(After(s2), ca, A, B)
        inv == Sent(s3, "incoming-invite")
        s4 == onAccept(After(s3), cb, B, A)
        con == Sent(s4, "connected")
        s5 == onMessage(After(s4), con[1].p.roomId, A, "hi", 0, now)
        msg == Sent(s5, "message")
    IN /\ AckedOk(s1) /\ AckedOk(s2)
       /\ Len(inv) = 1 /\ inv[1].to = {cb} /\ inv[1].p.fromId = A
       /\ Len(con) = 1 /\ con[1].to = {ca, cb}
       /\ con[1].p.roomId \in RoomIds
       /\ con[1].p.a = conn.a /\ con[1].p.b = conn.b
       /\ Len(msg) = 1 /\ cb \in msg[1].to
       /\ msg[1].p.text = "hi" /\ msg[1].p.ts \in Nat

MemberSockets(r) == {Get(UserIdToSocket, u, NoSocket) : u \in Members(r)}

\* C10: a message relayed for a room is delivered only to connections of the
\* room's two members; a connection bound to a third identity that is not a
\* member's connection receives nothing.
C10_OnlyMembersReceive ==
    \A r \in DOMAIN Rooms, senderId \in UserIds, text \in Texts, now \in Times :
        LET msg == Sent(onMessage(Cur, r, senderId, text, 0, now), "message")
        IN \A i \in 1 .. Len(msg) :
              /\ msg[i].to \subseteq MemberSockets(r)
              /\ \A c \in sockets :
                    (Get(SocketToUserId, c, NoUser) \notin Members(r)
                       /\ c \notin MemberSockets(r)) => c \notin msg[i].to

C10_Witness ==
    \E r \in DOMAIN Rooms, c \in sockets :
        /\ Has(SocketToUserId, c)
        /\ SocketToUserId[c] \notin Members(r)
        /\ c \notin MemberSockets(r)
        /\ Cardinality(scope[r]) = 2
        /\ LET msg == Sent(onMessage(Cur, r, Rooms[r].a, "hi", 0, 1000), "message")
           IN Len(msg) = 1 /\ msg[1].to = MemberSockets(r) /\ c \notin msg[1].to

\* A handler result that left the three tables as they are.
SameTables(st) ==
    /\ st.u2s = UserIdToSocket /\ st.s2u = SocketToUserId
    /\ st.u2r = UserToRoom /\ st.rooms = Rooms

\* A handler result that changed nothing at all in the server.
SameServer(st) ==
    /\ SameTables(st)
    /\ st.sockets = sockets /\ st.scope = scope /\ st.made = made /\ ~st.thrown

\* The log of a handler that did nothing but acknowledge.
OnlyAck(st, sid, ok) ==
    /\ Len(st.log) = 1
    /\ st.log[1].k = "ack" /\ st.log[1].to = {sid} /\ st.log[1].p.ok = ok

\* The log of a handler that told the caller of an error and acknowledged failure.
ErrorAndFailedAck(st, sid, code) ==
    /\ Len(st.log) = 2
    /\ st.log[1].k = "emit" /\ st.log[1].ev = "connect-error"
    /\ st.log[1].to = {sid} /\ st.log[1].p.code = code
    /\ st.log[2].k = "ack" /\ st.log[2].to = {sid} /\ ~st.log[2].p.ok

\* A live connection, bound to an identity, that was joined to a room that has
\* since been torn down.
FormerMember(sid, r) ==
    /\ sid \in sockets /\ sid \in scope[r]
    /\ Has(SocketToUserId, sid)
    /\ ~Has(Rooms, r) /\ endedSent[r] = 1

C15_AcceptCreatesRoom ==
    \A sid \in sockets, fromId \in UserIds, toId \in UserIds :
        (Has(UserIdToSocket, fromId) /\ Has(UserIdToSocket, toId)
           /\ ~isBusy(Cur, fromId) /\ ~isBusy(Cur, toId) /\ made < MaxRooms) =>
            LET s1 == onAccept(Cur, sid, fromId, toId)
                r == makeId(Cur)
                both == {UserIdToSocket[fromId], UserIdToSocket[toId]}
                con == Sent(s1, "connected")
            IN /\ ~Has(Rooms, r)
               /\ s1.rooms = Put(Rooms, r, [a |-> fromId, b |-> toId])
               /\ s1.u2r = Put(Put(UserToRoom, fromId, r), toId, r)
               /\ both \subseteq s1.scope[r]
               /\ Len(con) = 1
               /\ con[1].p = [roomId |-> r, a |-> fromId, b |-> toId]
               /\ con[1].to = both
               /\ Len(AcksOf(s1)) = 1
               /\ AcksOf(s1)[1].to = {sid} /\ AcksOf(s1)[1].p.ok

\* C16: every room in the room table has two distinct member identities.
C16_TwoDistinctMembers ==
    \A r \in DOMAIN Rooms : Rooms[r].a # Rooms[r].b

\* C17: a connection is bound to at most one identity - for every live
\* connection c at most one identity u has UserIdToSocket[u] = c.
C17_OneIdentityPerConnection ==
    \A c \in sockets :
        Cardinality({u \in DOMAIN UserIdToSocket : UserIdToSocket[u] = c}) <= 1

C19_ValidationMutatesNothing ==
    \A sid \in sockets :
        /\ \A userId \in {NoUser, NotAString} :
              LET s1 == onRegister(Cur, sid, userId)
              IN OnlyAck(s1, sid, FALSE) /\ SameServer(s1)
        /\ \A fromId \in UserArgs, toId \in UserArgs :
              /\ (fromId = NoUser \/ toId = NoUser \/ fromId = toId) =>
                    LET s1 == onConnectRequest(Cur, sid, fromId, toId)
                    IN OnlyAck(s1, sid, FALSE) /\ SameServer(s1)
              /\ (fromId = NoUser \/ toId = NoUser) =>
                    LET s1 == onAccept(Cur, sid, fromId, toId)
                    IN OnlyAck(s1, sid, FALSE) /\ SameServer(s1)

C19_Witness ==
    \E sid \in sockets, u \in UserIds :
        /\ Rooms # EmptyMap
        /\ Get(SocketToUserId, sid, NoUser) = u
        /\ isBusy(Cur, u)
        /\ Cardinality(sockets) > 1
        /\ OnlyAck(onRegister(Cur, sid, NotAString), sid, FALSE)
        /\ OnlyAck(onConnectRequest(Cur, sid, u, u), sid, FALSE)
        /\ OnlyAck(onAccept(Cur, sid, u, NoUser), sid, FALSE)

\* C20: every handler is total - for every payload shape, a truthy non-string
\* text in message and a non-string identity in register included, the handler
\* completes without throwing (the server keeps running) and takes the
\* validation/drop path, the three tables unchanged.
C20_HandlersTotal ==
    /\ running
    /\ \A sid \in sockets :
          /\ ~onRegister(Cur, sid, NotAString).thrown
          /\ SameTables(onRegister(Cur, sid, NotAString))
    /\ \A roomId \in RoomIds \cup {NoRoom}, senderId \in UserArgs, now \in Times :
          /\ ~onMessage(Cur, roomId, senderId, NotAString, 0, now).thrown
          /\ onMessage(Cur, roomId, senderId, NotAString, 0, now) = Cur

\* C21: message with truthy roomId and senderId and a non-blank text emits
\* exactly one message to roomId's scope, carrying the received roomId,
\* senderId and text and the server's clock as ts, whatever ts the client
\* sent; with a falsy roomId or senderId or a blank text it emits nothing and
\* acknowledges nothing.
C21_MessageRelay ==
    \A roomId \in ScopeNames, senderId \in UserArgs, text \in Texts,
       ts \in ClientTs, now \in Times :
        LET s1 == onMessage(Cur, roomId, senderId, text, ts, now)
        IN /\ SameServer(s1)
           /\ IF roomId # NoRoom /\ senderId # NoUser /\ trim(text) # ""
              THEN /\ Len(s1.log) = 1
                   /\ s1.log[1].k = "emit" /\ s1.log[1].ev = "message"
                   /\ s1.log[1].to = To(Cur, roomId)
                   /\ s1.log[1].p = [roomId |-> roomId, senderId |-> senderId,
                                     text |-> text, ts |-> now]
              ELSE s1.log = <<>>

C21_Witness ==
    \E r \in DOMAIN Rooms :
        /\ Cardinality(scope[r]) = 2
        /\ LET s1 == onMessage(Cur, r, Rooms[r].a, "hi", 5, 1000)
           IN /\ Len(Sent(s1, "message")) = 1
              /\ Sent(s1, "message")[1].to = scope[r]
              /\ Sent(s1, "message")[1].p.ts = 1000
        /\ onMessage(Cur, r, Rooms[r].a, " ", 5, 1000).log = <<>>
        /\ onMessage(Cur, r, NoUser, "hi", 5, 1000).log = <<>>

\* The member of room r that is not u (u itself in a room whose two members
\* are the same identity).
OtherMember(r, u) == IF Rooms[r].a = u THEN Rooms[r].b ELSE Rooms[r].a

Committed(st) ==
    IF st.thrown
    THEN [st EXCEPT !.u2s = EmptyMap, !.s2u = EmptyMap, !.u2r = EmptyMap,
                    !.rooms = EmptyMap]
    ELSE st

\* C24: connect-request, message and typing never modify the registry, the
\* busy index or the room table, whatever the payload and the outcome.
C24_NegotiatorAndRelayStateless ==
    /\ \A sid \in sockets, fromId \in UserArgs, toId \in UserArgs :
          SameTables(Committed(onConnectRequest(Cur, sid, fromId, toId)))
    /\ \A roomId \in ScopeNames, userId \in UserArgs, isTyping \in BOOLEAN :
          SameTables(Committed(onTyping(Cur, roomId, userId, isTyping)))
    /\ \A roomId \in ScopeNames, senderId \in UserArgs, text \in TextArgs,
          ts \in ClientTs, now \in Times :
          SameTables(Committed(onMessage(Cur, roomId, senderId, text, ts, now)))

C30_NoStaleRegistryEntries ==
    \A u \in DOMAIN UserIdToSocket : UserIdToSocket[u] \in sockets

\* ------------------------------------------------------ claims on the client
\* What a client handler gave to socket.emit under one event name.
ClientSent(c, ev) == SelectSeq(c.out, LAMBDA e : e.ev = ev)

\* C25: on connected{roomId, a, b} the Home page and the Chat page store
\* roomId as the current room and take as peer b if a is the own identity and
\* a otherwise, showing the chat page for that peer.
C25_ClientConnected ==
    \A r \in RoomIds, a \in UserIds, b \in UserIds :
        LET c1 == IF route = "home" THEN Home_onConnected(Tab, r, a, b)
                  ELSE Chat_onConnected(Tab, r, a, b)
        IN /\ c1.sessionRoomId = r
           /\ c1.chatRoomId = r
           /\ c1.route = "chat"
           /\ c1.peerId = (IF a = selfId THEN b ELSE a)

C25_Witness ==
    /\ route = "chat" /\ chatRoomId # NoRoom /\ peerId # selfId
    /\ \E r \in RoomIds, b \in UserIds :
          /\ r # chatRoomId /\ b # peerId /\ b # selfId
          /\ Chat_onConnected(Tab, r, selfId, b).peerId = b
          /\ Chat_onConnected(Tab, r, b, selfId).peerId = b
          /\ Chat_onConnected(Tab, r, selfId, b).chatRoomId = r

\* C26: after the Chat page receives ended, or after Leave, no roomId remains
\* stored and the Home page is shown; Leave emits exactly one
\* leave{roomId, userId: self} when a roomId is held and no leave when none
\* is held.
C26_ClientLeaving ==
    route = "chat" =>
        LET c1 == Chat_onEnded(Tab)
            c2 == leave(Tab)
        IN /\ c1.sessionRoomId = NoRoom /\ c1.chatRoomId = NoRoom /\ c1.route = "home"
           /\ ClientSent(c1, "leave") = <<>>
           /\ c2.sessionRoomId = NoRoom /\ c2.chatRoomId = NoRoom /\ c2.route = "home"
           /\ IF chatRoomId # NoRoom
              THEN /\ ClientSent(c2, "leave") =
                         <<[ev |-> "leave", p |-> [roomId |-> chatRoomId, userId |-> selfId]]>>
                   /\ c2.out[1].ev = "leave"
              ELSE c2.out = <<[ev |-> "register", p |-> selfId]>>

C26_Witness ==
    /\ route = "chat" /\ chatRoomId # NoRoom /\ sessionRoomId = chatRoomId
    /\ Len(ClientSent(leave(Tab), "leave")) = 1
    /\ leave(Tab).sessionRoomId = NoRoom
    /\ Chat_onEnded(Tab).route = "home"

\* C27: the Chat page emits message{roomId, senderId: self, text} only when it
\* holds a roomId and the trimmed input is not empty; the text sent is the
\* trimmed input and the input is cleared; otherwise nothing is emitted and
\* the input is kept.
C27_ClientSendGating ==
    route = "chat" =>
        LET c1 == send(Tab)
        IN IF chatRoomId # NoRoom /\ trim(input) # ""
           THEN /\ ClientSent(c1, "message") =
                      <<[ev |-> "message", p |-> [roomId |-> chatRoomId,
                                                  senderId |-> selfId,
                                                  text |-> trim(input)]]>>
                /\ c1.out[1].ev = "message"
                /\ c1.input = ""
           ELSE c1.out = <<>> /\ c1.input = input

C27_Witness ==
    /\ route = "chat" /\ chatRoomId # NoRoom /\ input = " hi "
    /\ ClientSent(send(Tab), "message")[1].p.text = "hi"
    /\ send(Tab).input = ""

\* C28: incoming-invite{fromId} makes fromId the pending invite of the Home
\* page; Reject emits reject{fromId: self, toId: inviter, inviteId: 'x'} and
\* clears it; Accept and Reject emit nothing when no invite is pending;
\* connected and ended clear the pending invite.
C28_ClientInviteHandling ==
    route = "home" =>
        /\ \A fromId \in UserIds : onInvite(Tab, fromId).pendingInviteFrom = fromId
        /\ \A fromId \in UserIds : onInvite(Tab, fromId).out = <<>>
        /\ IF pendingInviteFrom # NoUser
           THEN /\ rejectInvite(Tab).out =
                      <<[ev |-> "reject", p |-> [fromId |-> selfId,
                                                 toId |-> pendingInviteFrom,
                                                 inviteId |-> "x"]]>>
                /\ rejectInvite(Tab).pendingInviteFrom = NoUser
           ELSE acceptInvite(Tab) = Tab /\ rejectInvite(Tab) = Tab
        /\ \A r \in RoomIds, a \in UserIds, b \in UserIds :
              Home_onConnected(Tab, r, a, b).pendingInviteFrom = NoUser
        /\ Home_onEnded(Tab).pendingInviteFrom = NoUser

C28_Witness ==
    /\ route = "home"
    /\ pendingInviteFrom # NoUser /\ pendingInviteFrom # selfId
    /\ Len(ClientSent(rejectInvite(Tab), "reject")) = 1
    /\ rejectInvite(Tab).pendingInviteFrom = NoUser
    /\ Len(ClientSent(acceptInvite(Tab), "accept")) = 1

\* C31: no room outlives a member's connection - for every room both members
\* have a registry entry that names a live connection.
C31_NoRoomOutlivesConnection ==
    \A r \in DOMAIN Rooms :
        \A m \in Members(r) : Get(UserIdToSocket, m, NoSocket) \in sockets

\* The conditions accept itself checks.
AcceptPasses(fromId, toId) ==
    /\ fromId # NoUser /\ toId # NoUser
    /\ ~isBusy(Cur, fromId) /\ ~isBusy(Cur, toId)
    /\ Has(UserIdToSocket, fromId) /\ Has(UserIdToSocket, toId)

OnlyRoomRemoved(st, r) ==
    /\ DOMAIN st.rooms = DOMAIN Rooms \ {r}
    /\ \A q \in DOMAIN st.rooms : st.rooms[q] = Rooms[q]
    /\ DOMAIN st.u2r = DOMAIN UserToRoom \ Members(r)
    /\ \A u \in DOMAIN st.u2r : st.u2r[u] = UserToRoom[u]

C34_NoRelayAfterTeardown ==
    \A r \in RoomIds :
        (endedSent[r] > 0 /\ ~Has(Rooms, r)) =>
            \A senderId \in UserIds :
                /\ \A i \in 1 .. Len(onMessage(Cur, r, senderId, "hi", 5, 1000).log) :
                      onMessage(Cur, r, senderId, "hi", 5, 1000).log[i].to = {}
                /\ \A i \in 1 .. Len(onTyping(Cur, r, senderId, TRUE).log) :
                      onTyping(Cur, r, senderId, TRUE).log[i].to = {}

\* C35: every register, connect-request, accept, reject and leave is
\* acknowledged exactly once, on every path.
C35_ExactlyOneAck ==
    \A sid \in sockets :
        /\ \A userId \in RegisterArgs : Len(AcksOf(onRegister(Cur, sid, userId))) = 1
        /\ \A fromId \in UserArgs, toId \in UserArgs :
              /\ Len(AcksOf(onConnectRequest(Cur, sid, fromId, toId))) = 1
              /\ made < MaxRooms => Len(AcksOf(onAccept(Cur, sid, fromId, toId))) = 1
        /\ \A toId \in UserArgs : Len(AcksOf(onReject(Cur, sid, toId))) = 1
        /\ \A roomId \in ScopeNames : Len(AcksOf(onLeave(Cur, sid, roomId))) = 1

\* The connections a handler closed.
Closed(st) == {c \in SocketIds : \E i \in 1 .. Len(st.log) :
                                     st.log[i].k = "close" /\ st.log[i].to = {c}}

\* C36: a connection registering the identity it is already bound to closes
\* no connection, leaves registry, busy index and room table unchanged (a
\* room of that identity survives) and is acknowledged with success.
C36_SameConnectionReRegister ==
    \A sid \in sockets :
        LET u == Get(SocketToUserId, sid, NoUser)
            s1 == onRegister(Cur, sid, u)
        IN u # NoUser =>
              /\ Closed(s1) = {}
              /\ SameServer(s1)
              /\ Len(Sent(s1, "ended")) = 0
              /\ Len(AcksOf(s1)) = 1 /\ AckedOk(s1)
              /\ AcksOf(s1)[1].to = {sid}

C36_Witness ==
    \E sid \in sockets, r \in DOMAIN Rooms :
        LET u == Get(SocketToUserId, sid, NoUser)
        IN /\ u # NoUser /\ u \in Members(r) /\ Rooms[r].a # Rooms[r].b
           /\ sid \in scope[r] /\ Cardinality(scope[r]) = 2
           /\ Has(onRegister(Cur, sid, u).rooms, r)
           /\ AckedOk(onRegister(Cur, sid, u))

\* C37: when an identity that is in a room is registered from another
\* connection, the eviction of the old connection tears the room down with
\* exactly one ended{reason: disconnect}; when register returns the identity
\* is bound to the new connection and neither it nor its former peer is busy.
C37_ReRegistrationEndsRoom ==
    \A sid \in sockets, u \in UserIds :
        (isBusy(Cur, u) /\ Has(UserIdToSocket, u) /\ UserIdToSocket[u] # sid) =>
            LET s1 == onRegister(Cur, sid, u)
                r == UserToRoom[u]
            IN /\ Len(Sent(s1, "ended")) = 1
               /\ Sent(s1, "ended")[1].p = [roomId |-> r, reason |-> "disconnect"]
               /\ Get(s1.u2s, u, NoSocket) = sid
               /\ ~Has(s1.rooms, r)
               /\ \A m \in Members(r) : ~isBusy(s1, m)

\* C38: a register of identity u closes a connection only if that connection
\* is currently bound to u, and removes no other identity's registry entry.
C38_EvictsOnlyTheHolder ==
    \A sid \in sockets, u \in UserIds :
        LET s1 == onRegister(Cur, sid, u)
        IN /\ \A c \in Closed(s1) : Get(SocketToUserId, c, NoUser) = u
           /\ \A v \in DOMAIN UserIdToSocket \ {u} :
                 Get(s1.u2s, v, NoSocket) = UserIdToSocket[v]

\* C39: accept creates a room only when the calling connection is the one
\* registered for fromId or toId, and leave tears a room down only when the
\* calling connection is registered for one of the room's members.
C39_OnlyAPartyActs ==
    /\ \A sid \in sockets, fromId \in UserIds, toId \in UserIds :
          (made < MaxRooms /\ Has(onAccept(Cur, sid, fromId, toId).rooms, makeId(Cur))) =>
              sid \in {Get(UserIdToSocket, fromId, NoSocket),
                       Get(UserIdToSocket, toId, NoSocket)}
    /\ \A sid \in sockets, r \in DOMAIN Rooms :
          ~Has(onLeave(Cur, sid, r).rooms, r) => sid \in MemberSockets(r)
====
